---- MODULE Spec2Model ----
(***************************************************************************)
(* Model of the useEventer React hook (src/src/index.ts).                  *)
(*                                                                         *)
(* The hook body runs on every render: it normalises its arguments,        *)
(* checks the oneToOne length guard and hands an effect to useEffect.      *)
(* The host runtime runs the effect's setup when the dependency list       *)
(* changed, after running the cleanup the previous setup returned.         *)
(* The DOM side (addEventListener / removeEventListener / AbortSignal) is  *)
(* modelled by the listener list of each node.                             *)
(***************************************************************************)
EXTENDS Integers, Sequences, FiniteSets, TLC

VARIABLES
    props,      \* the arguments the component passes to the hook
    current,    \* ref handle -> node it points to, or Null (rf.current)
    listeners,  \* the event listener lists of all nodes, as one set
    aborted,    \* set of AbortSignals that have been aborted
    phase,      \* position of the host runtime for this hook instance
    deps,       \* dependency list useEffect last committed
    pending,    \* closure of the latest render whose effect is scheduled
    cycle,      \* closure of the effect in force (captured by its cleanup)
    log,        \* calls made by the cleanup and setup of the latest commit
    ncycles,    \* number of effect setups run so far
    fired       \* handlers the latest event dispatched since the latest
                \* commit invoked

vars == <<props, current, listeners, aborted, phase, deps, pending, cycle,
          log, ncycles, fired>>

----------------------------------------------------------------------------
(* Bounds *)

MaxCycles == 2

(* The universe of the environment *)

Null == "null"
Refs == {"r1", "r2"}
Nodes == {"X", "Y"}
\* the nodes a ref may point to: r1 to either node, r2 to Y only
Targets(r) == IF r = "r1" THEN {"X", "Y"} ELSE {"Y"}
EventTypes == {"click", "hover"}
DepValues == {"d1", "d2"}

NoSignal == [kind |-> "none", id |-> 0]
ExtSignal == [kind |-> "ext", id |-> 0]
CtrlSignal(c) == [kind |-> "ctrl", id |-> c]

(* Arguments of the hook: a single value or an array of values *)
RefArgs ==
    {[isArray |-> FALSE, items |-> <<"r1">>],
     [isArray |-> TRUE, items |-> <<>>],
     [isArray |-> TRUE, items |-> <<"r1", "r2">>]}

EventArgs ==
    {[isArray |-> FALSE, items |-> <<"click">>],
     [isArray |-> TRUE, items |-> <<>>],
     [isArray |-> TRUE, items |-> <<"click", "hover">>]}

(* listenerOptions: the signal entry is absent, present with the value     *)
(* undefined, or present with the caller's AbortSignal                     *)
ListenerOptionsSet ==
    [signal : {"absent", "undefined", "custom"}, capture : BOOLEAN,
     once : {FALSE}]

HookOptionsSet ==
    [oneToOne : BOOLEAN, callHandlerOnce : BOOLEAN,
     callHandlerOnEach : BOOLEAN, listenerOptions : ListenerOptionsSet]

(* The arguments used where the environment also removes listeners: the    *)
(* once option may be set, the setup-time invocation flags are left unset  *)
EnvListenerOptionsSet ==
    [signal : {"absent", "undefined", "custom"}, capture : BOOLEAN,
     once : BOOLEAN]

EnvHookOptionsSet ==
    [oneToOne : BOOLEAN, callHandlerOnce : {FALSE},
     callHandlerOnEach : {FALSE}, listenerOptions : EnvListenerOptionsSet]

----------------------------------------------------------------------------
(* Log entries: one per call the effect makes *)

NoNode == "-"
NoType == "-"

LogFactory(h) ==
    [op |-> "factory", node |-> NoNode, type |-> NoType, handler |-> h,
     signal |-> NoSignal, capture |-> FALSE]
LogCall(h) ==
    [op |-> "call", node |-> NoNode, type |-> NoType, handler |-> h,
     signal |-> NoSignal, capture |-> FALSE]
LogAdd(n, t, h, s, c) ==
    [op |-> "add", node |-> n, type |-> t, handler |-> h,
     signal |-> s, capture |-> c]
LogRemove(n, t, h) ==
    [op |-> "remove", node |-> n, type |-> t, handler |-> h,
     signal |-> NoSignal, capture |-> FALSE]
LogAbort(c) ==
    [op |-> "abort", node |-> NoNode, type |-> NoType, handler |-> 0,
     signal |-> CtrlSignal(c), capture |-> FALSE]

----------------------------------------------------------------------------
(* The DOM: EventTarget and AbortSignal *)

Listener(n, t, h, c, s, o) ==
    [node |-> n, type |-> t, handler |-> h, capture |-> c, signal |-> s,
     once |-> o]

\* addEventListener: nothing is added when the signal is already aborted or
\* when the list already holds a listener with the same type, callback and
\* capture
DomAdd(ls, ab, n, t, h, c, s, o) ==
    IF s \in ab THEN ls
    ELSE IF \E l \in ls : l.node = n /\ l.type = t /\ l.handler = h
                          /\ l.capture = c
         THEN ls
         ELSE ls \cup {Listener(n, t, h, c, s, o)}

\* removeEventListener(type, callback) with no options: capture is false
DomRemove(ls, n, t, h) ==
    {l \in ls : ~(l.node = n /\ l.type = t /\ l.handler = h
                  /\ l.capture = FALSE)}

\* abort of a signal removes every listener that was added with it
DomAbort(ls, s) == {l \in ls : l.signal # s}

\* the listeners a dispatched event of type t invokes on node n
DomInvoked(ls, n, t) == {l \in ls : l.node = n /\ l.type = t}

\* a listener added with once is removed when it is invoked
DomAfterDispatch(ls, n, t) == ls \ {l \in DomInvoked(ls, n, t) : l.once}

----------------------------------------------------------------------------
(* The hook body *)

\* Array.isArray(x) ? x : [x]
ToArray(arg) == IF arg.isArray THEN arg.items ELSE <<arg.items[1]>>

\* variant: the guard only rejects too many refs
MismatchOnlyMoreRefs(oneToOne, refs, events) ==
    oneToOne /\ Len(refs) > Len(events)

\* oneToOne && refs.length !== events.length
Mismatch(oneToOne, refs, events) == oneToOne /\ Len(refs) # Len(events)

\* refs.map((rf) => rf.current)
ResolveNodes(refs, cur) == [i \in 1..Len(refs) |-> cur[refs[i]]]

\* { signal: controller.signal, ...listenerOptions }
MergedSignal(c, lo) ==
    IF lo.signal = "absent" THEN CtrlSignal(c)
    ELSE IF lo.signal = "undefined" THEN NoSignal
    ELSE ExtSignal

\* truthiness of listenerOptions.signal
HasCustomSignal(lo) == lo.signal = "custom"

\* variant: the oneToOne loop binds every target to the first event type
PairedPairsFirstEvent(nodes, events) ==
    [i \in 1..Len(nodes) |-> <<nodes[i], events[1]>>]

\* the pairs the oneToOne loop visits, in order
PairedPairs(nodes, events) ==
    [i \in 1..Len(nodes) |-> <<nodes[i], events[i]>>]

\* variant: the nested loops replaced by one index-aligned loop
BroadcastPairsZip(nodes, events) ==
    [i \in 1..(IF Len(nodes) < Len(events) THEN Len(nodes) ELSE Len(events))
        |-> <<nodes[i], events[i]>>]

\* variant: event types in the outer loop, targets in the inner loop
BroadcastPairsEventsOuter(nodes, events) ==
    [k \in 1..(Len(nodes) * Len(events)) |->
        <<nodes[((k - 1) % Len(nodes)) + 1],
          events[((k - 1) \div Len(nodes)) + 1]>>]

\* the pairs the nested loops visit, in order
BroadcastPairs(nodes, events) ==
    [k \in 1..(Len(nodes) * Len(events)) |->
        <<nodes[((k - 1) \div Len(events)) + 1],
          events[((k - 1) % Len(events)) + 1]>>]

IterPairs(oneToOne, nodes, events) ==
    IF oneToOne THEN PairedPairs(nodes, events)
    ELSE BroadcastPairs(nodes, events)

----------------------------------------------------------------------------
(* The effect: setup *)

\* variant: the optional chaining on the node is missing
RegisterStepNoAbsentCheck(pair, h, sig, lo, each, ab, st) ==
    LET lg1 == IF each THEN Append(st.lg, LogCall(h)) ELSE st.lg
    IN  [ls |-> DomAdd(st.ls, ab, pair[1], pair[2], h, lo.capture, sig,
                           lo.once),
         lg |-> Append(lg1, LogAdd(pair[1], pair[2], h, sig,
                                        lo.capture))]

\* variant: the per-binding invocation is made after the registration
RegisterStepCallAfter(pair, h, sig, lo, each, ab, st) ==
    LET r == IF pair[1] = Null
             THEN st
             ELSE [ls |-> DomAdd(st.ls, ab, pair[1], pair[2], h, lo.capture, sig,
                           lo.once),
                   lg |-> Append(st.lg, LogAdd(pair[1], pair[2], h, sig,
                                        lo.capture))]
    IN  [ls |-> r.ls,
         lg |-> IF each THEN Append(r.lg, LogCall(h)) ELSE r.lg]

\* variant: the per-binding invocation is only made while no call was made
\* yet (callHandlerOnEach skipped after the callHandlerOnce invocation)
RegisterStepNoCallAfterOnce(pair, h, sig, lo, each, ab, st) ==
    LET called == \E i \in DOMAIN st.lg : st.lg[i].op = "call"
        first == Cardinality({i \in DOMAIN st.lg : st.lg[i].op = "add"}) = 0
        lg1 == IF each /\ ~(called /\ first)
               THEN Append(st.lg, LogCall(h)) ELSE st.lg
    IN  IF pair[1] = Null
        THEN [ls |-> st.ls, lg |-> lg1]
        ELSE [ls |-> DomAdd(st.ls, ab, pair[1], pair[2], h, lo.capture, sig,
                           lo.once),
              lg |-> Append(lg1, LogAdd(pair[1], pair[2], h, sig,
                                        lo.capture))]

\* one iteration of either registration loop:
\*   if (callHandlerOnEach) handler();
\*   node?.addEventListener(evt, handler, {signal, ...listenerOptions})
RegisterStep(pair, h, sig, lo, each, ab, st) ==
    LET lg1 == IF each THEN Append(st.lg, LogCall(h)) ELSE st.lg
    IN  IF pair[1] = Null
        THEN [ls |-> st.ls, lg |-> lg1]
        ELSE [ls |-> DomAdd(st.ls, ab, pair[1], pair[2], h, lo.capture, sig,
                           lo.once),
              lg |-> Append(lg1, LogAdd(pair[1], pair[2], h, sig,
                                        lo.capture))]

RECURSIVE RegisterLoop(_, _, _, _, _, _, _, _)
RegisterLoop(pairs, k, h, sig, lo, each, ab, st) ==
    IF k > Len(pairs) THEN st
    ELSE RegisterLoop(pairs, k + 1, h, sig, lo, each, ab,
                      RegisterStep(pairs[k], h, sig, lo, each, ab, st))

\* variant: callHandlerOnce is ignored
SetupPrologueNoCall(h, once) == <<LogFactory(h)>>

\* variant: the factory is invoked again for the immediate call
SetupPrologueTwice(h, once) ==
    IF once THEN <<LogFactory(h), LogFactory(h), LogCall(h)>>
    ELSE <<LogFactory(h)>>

\* const handler = callback(); if (callHandlerOnce) handler();
SetupPrologue(h, once) ==
    IF once THEN <<LogFactory(h), LogCall(h)>> ELSE <<LogFactory(h)>>

\* which cleanup function the setup returns: the oneToOne branch returns
\* () => controller.abort(), the other path returns the full cleanup
CleanupKind(oneToOne) == IF oneToOne THEN "abortOnly" ELSE "full"

\* src/src/index.js: the oneToOne loop does not return, so every setup
\* returns the full cleanup
CleanupKindJs(oneToOne) == "full"

----------------------------------------------------------------------------
(* The effect: cleanup *)

\* variant: the removal dereferences the node without the ?. guard, which
\* raises a TypeError on an absent node and ends the cleanup there
RemoveStepNoOptionalChaining(pair, h, st) ==
    IF st.err THEN st
    ELSE IF pair[1] = Null THEN [st EXCEPT !.err = TRUE]
    ELSE [ls |-> DomRemove(st.ls, pair[1], pair[2], h),
          lg |-> Append(st.lg, LogRemove(pair[1], pair[2], h)),
          err |-> st.err]

\* node?.removeEventListener(evt, handler): skipped on an absent node; the
\* call itself is a no-op when no such listener is registered. err records
\* an exception raised by the cleanup, which ends it.
RemoveStep(pair, h, st) ==
    IF st.err \/ pair[1] = Null THEN st
    ELSE [ls |-> DomRemove(st.ls, pair[1], pair[2], h),
          lg |-> Append(st.lg, LogRemove(pair[1], pair[2], h)),
          err |-> st.err]

RECURSIVE RemoveLoop(_, _, _, _)
RemoveLoop(pairs, k, h, st) ==
    IF k > Len(pairs) THEN st
    ELSE RemoveLoop(pairs, k + 1, h, RemoveStep(pairs[k], h, st))

\* whether the cleanup aborts the controller (and returns)
CleanupAborts(cy) ==
    cy.cleanup = "abortOnly" \/ ~HasCustomSignal(cy.listenerOptions)

\* variant: the cleanup reads rf.current again instead of the nodes that
\* setup resolved
RunCleanupLiveRefs(cy, ls) ==
    IF CleanupAborts(cy)
    THEN [ls |-> DomAbort(ls, CtrlSignal(cy.controller)),
          lg |-> <<LogAbort(cy.controller)>>, err |-> FALSE]
    ELSE RemoveLoop(IterPairs(cy.oneToOne, ResolveNodes(cy.refs, current),
                              cy.events), 1,
                    cy.handler, [ls |-> ls, lg |-> <<>>, err |-> FALSE])

\* the cleanup function of cycle cy run on the listener lists ls
RunCleanup(cy, ls) ==
    IF CleanupAborts(cy)
    THEN [ls |-> DomAbort(ls, CtrlSignal(cy.controller)),
          lg |-> <<LogAbort(cy.controller)>>, err |-> FALSE]
    ELSE RemoveLoop(IterPairs(cy.oneToOne, cy.nodes, cy.events), 1,
                    cy.handler, [ls |-> ls, lg |-> <<>>, err |-> FALSE])

----------------------------------------------------------------------------
(* State machine *)

NoPending ==
    [refs |-> <<>>, events |-> <<>>, oneToOne |-> FALSE,
     callHandlerOnce |-> FALSE, callHandlerOnEach |-> FALSE,
     listenerOptions |-> [signal |-> "absent", capture |-> FALSE,
                          once |-> FALSE]]

NoCycle ==
    [status |-> "none", oneToOne |-> FALSE,
     callHandlerOnce |-> FALSE, callHandlerOnEach |-> FALSE,
     listenerOptions |-> [signal |-> "absent", capture |-> FALSE,
                          once |-> FALSE],
     refs |-> <<>>, nodes |-> <<>>, events |-> <<>>, handler |-> 0,
     controller |-> 0, cleanup |-> "full"]

NoFired == {}

InitWith(optionsSet) ==
    /\ props \in [ref : RefArgs, event : EventArgs, options : optionsSet]
    /\ current \in {f \in [Refs -> Nodes \cup {Null}] :
                        \A r \in Refs : f[r] \in Targets(r) \cup {Null}}
    /\ listeners = {}
    /\ aborted = {}
    /\ phase = "init"
    /\ deps = "d1"
    /\ pending = NoPending
    /\ cycle = NoCycle
    /\ log = <<>>
    /\ ncycles = 0
    /\ fired = NoFired

Init == InitWith(HookOptionsSet)

\* The component renders and calls useEventer(ref, event, callback,
\* dependencies, options): the hook body up to the useEffect call.
Render(dependencies) ==
    LET events == ToArray(props.event)
        refs == ToArray(props.ref)
        o == props.options
    IN  /\ phase \in {"init", "idle"}
        /\ IF Mismatch(o.oneToOne, refs, events)
           THEN /\ phase' = "threw"
                /\ UNCHANGED <<deps, pending, log, fired>>
           ELSE IF phase = "init" \/ dependencies # deps
           THEN /\ ncycles < MaxCycles
                /\ deps' = dependencies
                /\ pending' = [refs |-> refs, events |-> events,
                               oneToOne |-> o.oneToOne,
                               callHandlerOnce |-> o.callHandlerOnce,
                               callHandlerOnEach |-> o.callHandlerOnEach,
                               listenerOptions |-> o.listenerOptions]
                /\ phase' = IF cycle.status = "active" THEN "cleanup"
                            ELSE "setup"
                /\ log' = <<>>
                /\ fired' = NoFired
           ELSE UNCHANGED <<phase, deps, pending, log, fired>>
        /\ UNCHANGED <<props, current, listeners, aborted, cycle, ncycles>>

\* The runtime runs the cleanup of the effect in force before it runs the
\* effect again.
Cleanup ==
    /\ phase = "cleanup"
    /\ LET r == RunCleanup(cycle, listeners)
       IN  /\ listeners' = r.ls
           /\ log' = log \o r.lg
           /\ aborted' = IF CleanupAborts(cycle)
                         THEN aborted \cup {CtrlSignal(cycle.controller)}
                         ELSE aborted
           /\ phase' = IF r.err THEN "crashed" ELSE "setup"
    /\ cycle' = NoCycle
    /\ UNCHANGED <<props, current, deps, pending, ncycles, fired>>

\* The runtime runs the effect: the function passed to useEffect.
Setup ==
    /\ phase = "setup"
    /\ LET h == ncycles + 1
           c == ncycles + 1
           nodes == ResolveNodes(pending.refs, current)
           sig == MergedSignal(c, pending.listenerOptions)
           r == RegisterLoop(
                    IterPairs(pending.oneToOne, nodes, pending.events), 1, h,
                    sig, pending.listenerOptions,
                    pending.callHandlerOnEach, aborted,
                    [ls |-> listeners,
                     lg |-> SetupPrologue(h, pending.callHandlerOnce)])
       IN  /\ listeners' = r.ls
           /\ log' = log \o r.lg
           /\ cycle' = [status |-> "active",
                        oneToOne |-> pending.oneToOne,
                        callHandlerOnce |-> pending.callHandlerOnce,
                        callHandlerOnEach |-> pending.callHandlerOnEach,
                        listenerOptions |-> pending.listenerOptions,
                        refs |-> pending.refs,
                        nodes |-> nodes, events |-> pending.events,
                        handler |-> h, controller |-> c,
                        cleanup |-> CleanupKind(pending.oneToOne)]
    /\ ncycles' = ncycles + 1
    /\ pending' = NoPending
    /\ phase' = "idle"
    /\ UNCHANGED <<props, current, aborted, deps, fired>>

\* The owning component is torn down (also after a render that threw): the
\* runtime runs the cleanup of the effect in force.
Unmount ==
    /\ phase \in {"idle", "threw"}
    /\ IF cycle.status = "active"
       THEN LET r == RunCleanup(cycle, listeners)
            IN  /\ listeners' = r.ls
                /\ log' = r.lg
                /\ aborted' = IF CleanupAborts(cycle)
                              THEN aborted \cup {CtrlSignal(cycle.controller)}
                              ELSE aborted
                /\ cycle' = NoCycle
                /\ phase' = IF r.err THEN "crashed" ELSE "unmounted"
       ELSE /\ log' = <<>>
            /\ phase' = "unmounted"
            /\ UNCHANGED <<listeners, aborted, cycle>>
    /\ fired' = NoFired
    /\ UNCHANGED <<props, current, deps, pending, ncycles>>

\* An event of type t is dispatched on node n: every listener of that type
\* on the node is invoked with the event.
Dispatch(n, t) ==
    /\ phase \in {"idle", "unmounted"}
    /\ fired' = {l.handler : l \in DomInvoked(listeners, n, t)}
    /\ listeners' = DomAfterDispatch(listeners, n, t)
    /\ UNCHANGED <<props, current, aborted, phase, deps,
                   pending, cycle, log, ncycles>>

\* The runtime re-points a ref (the element is mounted, replaced or removed).
SetRef(r, v) ==
    /\ phase = "idle"
    /\ current[r] # v
    /\ current' = [current EXCEPT ![r] = v]
    /\ UNCHANGED <<props, listeners, aborted, phase, deps, pending,
                   cycle, log, ncycles, fired>>

Next ==
    \/ \E d \in DepValues : Render(d)
    \/ Cleanup
    \/ Setup
    \/ Unmount
    \/ \E n \in Nodes, t \in EventTypes : Dispatch(n, t)
    \/ \E r \in Refs : \E v \in Targets(r) \cup {Null} : SetRef(r, v)

Spec == Init /\ [][Next]_vars

\* The caller activates the AbortSignal it passed in listenerOptions: the
\* listeners registered with that signal are removed.
AbortCallerSignal ==
    /\ phase = "idle"
    /\ props.options.listenerOptions.signal = "custom"
    /\ ExtSignal \notin aborted
    /\ aborted' = aborted \cup {ExtSignal}
    /\ listeners' = DomAbort(listeners, ExtSignal)
    /\ UNCHANGED <<props, current, phase, deps, pending, cycle, log,
                   ncycles, fired>>

\* The hook in an environment that removes listeners on its own: once
\* listeners that fire, and the caller's signal being activated.
EnvInit == InitWith(EnvHookOptionsSet)

EnvNext == Next \/ AbortCallerSignal

EnvSpec == EnvInit /\ [][EnvNext]_vars

\* The arguments a component may pass from one render to the next
RerenderOptionsSet ==
    [oneToOne : BOOLEAN, callHandlerOnce : BOOLEAN,
     callHandlerOnEach : {FALSE},
     listenerOptions : [signal : {"absent", "custom"}, capture : {FALSE},
                        once : {FALSE}]]

RerenderPropsSet ==
    [ref : {a \in RefArgs : Len(a.items) > 0},
     event : {a \in EventArgs : Len(a.items) > 0},
     options : RerenderOptionsSet]

\* variant: useEffect without a dependency list, so that the effect runs
\* again after every render
RenderPropsNoDeps(p, dependencies) ==
    LET events == ToArray(p.event)
        refs == ToArray(p.ref)
        o == p.options
    IN  /\ phase \in {"init", "idle"}
        /\ props' = p
        /\ IF Mismatch(o.oneToOne, refs, events)
           THEN /\ phase' = "threw"
                /\ UNCHANGED <<deps, pending, log, fired>>
           ELSE /\ ncycles < MaxCycles
                /\ deps' = dependencies
                /\ pending' = [refs |-> refs, events |-> events,
                               oneToOne |-> o.oneToOne,
                               callHandlerOnce |-> o.callHandlerOnce,
                               callHandlerOnEach |-> o.callHandlerOnEach,
                               listenerOptions |-> o.listenerOptions]
                /\ phase' = IF cycle.status = "active" THEN "cleanup"
                            ELSE "setup"
                /\ log' = <<>>
                /\ fired' = NoFired
        /\ UNCHANGED <<current, listeners, aborted, cycle, ncycles>>

\* The component renders and calls useEventer with arguments p that may
\* differ from those of the previous render: the hook body up to the
\* useEffect call, which schedules the effect only when the dependency
\* list changed.
RenderProps(p, dependencies) ==
    LET events == ToArray(p.event)
        refs == ToArray(p.ref)
        o == p.options
    IN  /\ phase \in {"init", "idle"}
        /\ props' = p
        /\ IF Mismatch(o.oneToOne, refs, events)
           THEN /\ phase' = "threw"
                /\ UNCHANGED <<deps, pending, log, fired>>
           ELSE IF phase = "init" \/ dependencies # deps
           THEN /\ ncycles < MaxCycles
                /\ deps' = dependencies
                /\ pending' = [refs |-> refs, events |-> events,
                               oneToOne |-> o.oneToOne,
                               callHandlerOnce |-> o.callHandlerOnce,
                               callHandlerOnEach |-> o.callHandlerOnEach,
                               listenerOptions |-> o.listenerOptions]
                /\ phase' = IF cycle.status = "active" THEN "cleanup"
                            ELSE "setup"
                /\ log' = <<>>
                /\ fired' = NoFired
           ELSE UNCHANGED <<phase, deps, pending, log, fired>>
        /\ UNCHANGED <<current, listeners, aborted, cycle, ncycles>>

RerenderInit == InitWith(RerenderOptionsSet) /\ props \in RerenderPropsSet

RerenderNext ==
    \/ \E p \in RerenderPropsSet, d \in DepValues : RenderProps(p, d)
    \/ Cleanup
    \/ Setup
    \/ Unmount

RerenderSpec == RerenderInit /\ [][RerenderNext]_vars

----------------------------------------------------------------------------
(* Observations on the log and on the arguments *)

OpsAt(ops) == {i \in DOMAIN log : log[i].op \in ops}
NumOps(ops) == Cardinality(OpsAt(ops))

\* the add calls of the latest setup, in the order they were made
Adds == SelectSeq(log, LAMBDA e : e.op = "add")

\* the setup of the cycle in force has run and nothing was torn down since
SetupDone == phase = "idle" /\ cycle.status = "active"

PropsMismatch ==
    props.options.oneToOne
    /\ Len(ToArray(props.ref)) # Len(ToArray(props.event))

\* indices of the targets that resolved to a present object
Present(nodes) == {i \in DOMAIN nodes : nodes[i] # Null}

----------------------------------------------------------------------------
(* C1: with oneToOne set and a number of refs different from the number of *)
(* events, the call throws and nothing else ever happens: the effect is    *)
(* never scheduled or run, so no listener is added or removed and neither  *)
(* the callback factory nor the handler is invoked.                        *)
C1_MismatchThrowsNoSideEffect ==
    PropsMismatch =>
        /\ phase \in {"init", "threw", "unmounted"}
        /\ listeners = {}
        /\ log = <<>>
        /\ ncycles = 0
        /\ cycle = NoCycle
        /\ pending = NoPending
        /\ fired = {}

C1_Witness == PropsMismatch /\ phase = "threw"

----------------------------------------------------------------------------
(* C5: without oneToOne, one setup makes exactly one add call for every    *)
(* (target, event type) combination whose target is present, and no other: *)
(* their number is len(targets) * len(eventTypes) minus the combinations   *)
(* whose target is absent.                                                 *)
C5_BroadcastCardinality ==
    (SetupDone /\ ~cycle.oneToOne) =>
        LET combos == {<<i, j>> \in Present(cycle.nodes) \X DOMAIN cycle.events
                          : TRUE}
            absent == (DOMAIN cycle.nodes \ Present(cycle.nodes))
                          \X DOMAIN cycle.events
        IN  /\ Len(Adds) = Cardinality(combos)
            /\ Len(Adds) = Len(cycle.nodes) * Len(cycle.events)
                              - Cardinality(absent)
            /\ \A c \in combos :
                   Cardinality({k \in DOMAIN Adds :
                       /\ k = Cardinality({d \in combos :
                                 d[1] < c[1] \/ (d[1] = c[1] /\ d[2] <= c[2])})
                       /\ Adds[k].node = cycle.nodes[c[1]]
                       /\ Adds[k].type = cycle.events[c[2]]
                       /\ Adds[k].handler = cycle.handler}) = 1

C5_Witness ==
    /\ SetupDone /\ ~cycle.oneToOne
    /\ Len(cycle.nodes) = 2 /\ Len(cycle.events) = 2
    /\ cycle.nodes[1] = Null /\ cycle.nodes[2] # Null
    /\ Len(Adds) = 2

----------------------------------------------------------------------------
(* C6 as stated: with oneToOne and equal counts, exactly len(targets)      *)
(* add calls are made, the i-th binding targets[i] to eventTypes[i].       *)
C6_PairedCardinalityAsStated ==
    (SetupDone /\ cycle.oneToOne) =>
        /\ Len(Adds) = Len(cycle.nodes)
        /\ \A i \in DOMAIN Adds :
               /\ Adds[i].node = cycle.nodes[i]
               /\ Adds[i].type = cycle.events[i]

(* C6 amended: with oneToOne and equal counts, exactly one add call is     *)
(* made for every index i whose target is present, in increasing order of  *)
(* i, binding targets[i] to eventTypes[i] and to no other event type; the  *)
(* number of add calls is len(targets) minus the absent targets.           *)
C6_PairedCardinality ==
    (SetupDone /\ cycle.oneToOne) =>
        LET P == Present(cycle.nodes)
        IN  /\ Len(cycle.nodes) = Len(cycle.events)
            /\ Len(Adds) = Cardinality(P)
            /\ \A i \in P :
                   LET k == Cardinality({j \in P : j <= i})
                   IN  /\ Adds[k].node = cycle.nodes[i]
                       /\ Adds[k].type = cycle.events[i]
                       /\ Adds[k].handler = cycle.handler

C6_Witness ==
    /\ SetupDone /\ cycle.oneToOne
    /\ Len(cycle.nodes) = 2
    /\ Present(cycle.nodes) = {1, 2}
    /\ Len(Adds) = 2
    /\ Adds[1].type = "click" /\ Adds[2].type = "hover"

----------------------------------------------------------------------------
\* number of pairs the registration loop of the cycle in force iterated
NumPairs ==
    IF cycle.oneToOne THEN Len(cycle.nodes)
    ELSE Len(cycle.nodes) * Len(cycle.events)

\* handler invocations of the latest setup made before its first add call
CallsBeforeFirstAdd ==
    Cardinality({i \in OpsAt({"call"}) : \A j \in OpsAt({"add"}) : i < j})

----------------------------------------------------------------------------
(* C8: with callHandlerOnEach set, the handler invocations made by setup   *)
(* (the callHandlerOnce invocation apart) are as many as the add calls     *)
(* made in that cycle.                                                     *)
C8_CallPerBindingCount ==
    (SetupDone /\ cycle.callHandlerOnEach) =>
        NumOps({"call"}) - (IF cycle.callHandlerOnce THEN 1 ELSE 0)
            = Len(Adds)

----------------------------------------------------------------------------
(* C9: every setup invokes the callback factory exactly once, first, and   *)
(* every invocation, add call and listener of that setup uses the handler  *)
(* it returned; every remove call of a cleanup uses the handler of the     *)
(* cycle it tears down.                                                    *)
C9_Step ==
    /\ phase = "setup" =>
           LET new == SubSeq(log', Len(log) + 1, Len(log'))
           IN  /\ Len(new) >= 1
               /\ new[1].op = "factory"
               /\ Cardinality({i \in DOMAIN new : new[i].op = "factory"}) = 1
               /\ \A i \in DOMAIN new : new[i].handler = cycle'.handler
               /\ \A l \in listeners' \ listeners :
                      l.handler = cycle'.handler
               /\ cycle'.handler = new[1].handler
    /\ (cycle.status = "active" /\ cycle'.status # "active") =>
           \A i \in DOMAIN log' :
               log'[i].op = "remove" => log'[i].handler = cycle.handler

C9_HandlerIdentity == [][C9_Step]_vars

C9_Witness ==
    /\ SetupDone /\ ncycles = 2
    /\ NumOps({"remove"}) > 0 /\ Len(Adds) > 0
    /\ NumOps({"call"}) > 0

----------------------------------------------------------------------------
\* the (node, event type) pairs of a binding set whose target is present
PresentPairs(oneToOne, nodes, events) ==
    IF oneToOne
    THEN {<<nodes[i], events[i]>> : i \in Present(nodes)}
    ELSE {<<nodes[i], events[j]>> :
             <<i, j>> \in Present(nodes) \X DOMAIN events}

(* C10: an absent target only drops its own pairs. A setup completes, adds *)
(* a listener for exactly the pairs whose target is present and makes no   *)
(* add call for an absent target; a cleanup that removes explicitly makes  *)
(* a remove call for exactly the pairs whose target was present, and none  *)
(* for an absent target.                                                   *)
C10_Step ==
    /\ phase = "setup" =>
           LET nodes == ResolveNodes(pending.refs, current)
               pp == PresentPairs(pending.oneToOne, nodes, pending.events)
               new == SubSeq(log', Len(log) + 1, Len(log'))
           IN  /\ phase' = "idle"
               /\ {<<l.node, l.type>> : l \in listeners' \ listeners} = pp
               /\ {<<new[i].node, new[i].type>> :
                      i \in {k \in DOMAIN new : new[k].op = "add"}} = pp
               /\ \A i \in DOMAIN new : new[i].node # Null
    /\ (cycle.status = "active" /\ cycle'.status # "active") =>
           /\ \A i \in DOMAIN log' : log'[i].node # Null
           /\ ~CleanupAborts(cycle) =>
                  {<<log'[i].node, log'[i].type>> : i \in DOMAIN log'}
                      = PresentPairs(cycle.oneToOne, cycle.nodes, cycle.events)

C10_AbsentTargets == [][C10_Step]_vars

C10_Witness ==
    /\ SetupDone /\ ~cycle.oneToOne
    /\ Len(cycle.nodes) = 2 /\ Len(cycle.events) = 2
    /\ cycle.nodes[1] = Null /\ cycle.nodes[2] # Null
    /\ Cardinality({l \in listeners : l.handler = cycle.handler}) = 2

----------------------------------------------------------------------------
\* handlers of the cycles that have been torn down
TornHandlers ==
    IF cycle.status = "active" THEN 1..(ncycles - 1) ELSE 1..ncycles

(* C2: when the caller supplied no custom signal, an event dispatched      *)
(* after a cycle's cleanup invokes no handler of that cycle.               *)
C2_DefaultTeardown ==
    ~HasCustomSignal(props.options.listenerOptions) =>
        fired \cap TornHandlers = {}

(* C3: when the caller supplied a custom signal (capture left unset), an   *)
(* event dispatched after a cycle's cleanup invokes no handler of that     *)
(* cycle, with or without oneToOne.                                        *)
C3_CustomSignalTeardown ==
    (props.options.listenerOptions.signal = "custom"
        /\ ~props.options.listenerOptions.capture) =>
        fired \cap TornHandlers = {}

(* C4: when the setup of a new cycle starts, the cleanup of the previous   *)
(* cycle has run and no binding of a previous cycle is left.               *)
C4_CycleReplacement ==
    phase = "setup" =>
        /\ cycle.status # "active"
        /\ OpsAt({"factory", "call", "add"}) = {}
        /\ listeners = {}

----------------------------------------------------------------------------
\* the (node, event type, handler) triples of the entries of lg with op o
Triples(lg, o) ==
    LET sel == SelectSeq(lg, LAMBDA e : e.op = o)
    IN  [i \in DOMAIN sel |-> <<sel[i].node, sel[i].type, sel[i].handler>>]

(* C11: a cleanup that removes explicitly acts on the nodes that setup     *)
(* resolved, whatever the refs point to by then: its remove calls carry    *)
(* the (node, event type, handler) triples of the add calls of that setup. *)
C11_Step ==
    (cycle.status = "active" /\ cycle'.status # "active"
        /\ ~CleanupAborts(cycle)) =>
        /\ phase = "idle" => Triples(log', "remove") = Triples(log, "add")
        /\ phase = "cleanup" =>
               {Triples(log', "remove")[i] :
                   i \in DOMAIN Triples(log', "remove")}
               = {<<q[1], q[2], cycle.handler>> :
                     q \in PresentPairs(cycle.oneToOne, cycle.nodes,
                                        cycle.events)}

----------------------------------------------------------------------------
(* C12: no handler invocation made by setup comes after the last add call  *)
(* of that setup, and a cleanup never invokes the handler.                 *)
C12_NoCallAfterRegistration ==
    /\ (SetupDone /\ Len(Adds) > 0) =>
           \A i \in OpsAt({"call"}) : \E j \in OpsAt({"add"}) : i < j
    /\ phase \in {"setup", "unmounted"} => OpsAt({"call"}) = {}

----------------------------------------------------------------------------
----------------------------------------------------------------------------
(* C14: with callHandlerOnce and callHandlerOnEach both set, setup invokes *)
(* the handler once at the start and once more for every pair its loop     *)
(* iterates: 1 + number of iterated pairs invocations in all.              *)
C14_FlagsCompound ==
    (SetupDone /\ cycle.callHandlerOnce /\ cycle.callHandlerOnEach) =>
        /\ NumOps({"call"}) = 1 + NumPairs
        /\ \A i \in OpsAt({"call"}) : log[i].handler = cycle.handler

C14_Witness ==
    /\ SetupDone /\ cycle.callHandlerOnce /\ cycle.callHandlerOnEach
    /\ NumPairs = 4 /\ NumOps({"call"}) = 5

----------------------------------------------------------------------------
(* C15: with a custom signal supplied every add call of the cycle is made  *)
(* with the caller's signal and none with the controller's; with none      *)
(* supplied every add call is made with the controller's signal.           *)
C15_SignalPrecedence ==
    SetupDone =>
        \A i \in OpsAt({"add"}) :
            IF HasCustomSignal(cycle.listenerOptions)
            THEN log[i].signal = ExtSignal
            ELSE log[i].signal = CtrlSignal(cycle.controller)

----------------------------------------------------------------------------
(* C18: the mechanism the cleanup uses governs the listeners of the cycle, *)
(* for every shape of listenerOptions (taken here without oneToOne): when  *)
(* the cleanup is going to abort the controller, every listener the cycle  *)
(* registered carries the controller's signal.                             *)
C18_MechanismMatch ==
    (SetupDone /\ ~cycle.oneToOne /\ CleanupAborts(cycle)) =>
        \A l \in listeners :
            l.handler = cycle.handler =>
                l.signal = CtrlSignal(cycle.controller)

----------------------------------------------------------------------------
(* C19: index.ts and index.js behave alike. The two effects are the same   *)
(* statement for statement up to the cleanup function they return, so they *)
(* agree up to the first cleanup; the claim then asks that, from every     *)
(* state a setup leaves, the cleanup returned by index.ts and the one      *)
(* returned by index.js make the same remove calls and leave the same     *)
(* listeners.                                                              *)
C19_SourcesEquivalent ==
    SetupDone =>
        LET ts == RunCleanup(cycle, listeners)
            js == RunCleanup([cycle EXCEPT
                                 !.cleanup = CleanupKindJs(cycle.oneToOne)],
                             listeners)
        IN  /\ ts.ls = js.ls
            /\ Triples(ts.lg, "remove") = Triples(js.lg, "remove")

----------------------------------------------------------------------------
(* C20: with a custom signal (taken here without oneToOne), whatever the   *)
(* capture option used at registration, an event dispatched after a        *)
(* cycle's cleanup invokes no handler of that cycle.                       *)
C20_RemovalVersusCapture ==
    (props.options.listenerOptions.signal = "custom"
        /\ ~props.options.oneToOne) =>
        fired \cap TornHandlers = {}

----------------------------------------------------------------------------
\* the (node, event type) pairs of the entries of lg with op o, in order
PairsOf(lg, o) ==
    LET sel == SelectSeq(lg, LAMBDA e : e.op = o)
    IN  [i \in DOMAIN sel |-> <<sel[i].node, sel[i].type>>]

\* the order of the binding set of a cycle, absent targets left out:
\* by increasing index with oneToOne, else targets first and event types
\* second
BindingOrder(cy) ==
    LET n == Len(cy.nodes)
        e == Len(cy.events)
        all == IF cy.oneToOne
               THEN [i \in 1..n |-> <<cy.nodes[i], cy.events[i]>>]
               ELSE [k \in 1..(n * e) |->
                        <<cy.nodes[((k - 1) \div e) + 1],
                          cy.events[((k - 1) % e) + 1]>>]
    IN  SelectSeq(all, LAMBDA q : q[1] # Null)

(* C17: the add calls of a setup are made in the order of the binding set  *)
(* (targets outer and event types inner without oneToOne, by increasing    *)
(* index with it), and the remove calls of a cleanup that removes          *)
(* explicitly are made in that same order.                                 *)
C17_Step ==
    /\ phase = "setup" => PairsOf(log', "add") = BindingOrder(cycle')
    /\ (cycle.status = "active" /\ cycle'.status # "active"
           /\ ~CleanupAborts(cycle)) =>
           /\ PairsOf(log', "remove") = BindingOrder(cycle)
           /\ phase = "idle" => PairsOf(log', "remove") = PairsOf(log, "add")

----------------------------------------------------------------------------
(* C16: teardown never fails. Whatever the arguments, the targets that     *)
(* were absent at setup, the listeners that a once option or the caller's  *)
(* own signal already removed, and whichever of the two teardown paths is  *)
(* taken, the cleanup of a cycle whose setup completed raises no error.    *)
C16_TeardownNeverFails == phase # "crashed"

\* an explicit-removal teardown that skipped an absent target and removed
\* a listener the caller's signal had already taken away
C16_Witness ==
    /\ phase = "unmounted"
    /\ ExtSignal \in aborted
    /\ ~props.options.oneToOne
    /\ props.options.listenerOptions.once
    /\ Len(ToArray(props.ref)) = 2
    /\ Len(ToArray(props.event)) = 1
    /\ NumOps({"remove"}) = 1

----------------------------------------------------------------------------
\* what the cleanup of cycle cy is to do, from what its setup captured
CapturedTeardown(cy) ==
    IF cy.oneToOne \/ cy.listenerOptions.signal # "custom"
    THEN <<LogAbort(cy.controller)>>
    ELSE LET b == BindingOrder(cy)
         IN  [k \in 1..Len(b) |-> LogRemove(b[k][1], b[k][2], cy.handler)]

\* a render that passed validation and left the dependency list as it was
SameKeyRender ==
    /\ SetupDone
    /\ props' # props
    /\ deps' = deps
    /\ phase' # "threw"

(* C21: a render with an unchanged dependency list, even with other refs,  *)
(* event types, flags or listener options that pass validation, invokes    *)
(* neither the factory nor the handler and adds and removes nothing: the   *)
(* listeners and the cycle in force stay as they are. The cleanup that     *)
(* later ends the cycle acts on the nodes, event types, handler and        *)
(* listener options captured at its setup, not on the latest arguments.    *)
C21_Step ==
    /\ SameKeyRender =>
           UNCHANGED <<listeners, aborted, cycle, pending, log, ncycles,
                       fired, phase, current>>
    /\ (cycle.status = "active" /\ cycle'.status # "active") =>
           /\ SubSeq(log', Len(log') - Len(CapturedTeardown(cycle)) + 1,
                     Len(log')) = CapturedTeardown(cycle)
           /\ phase = "idle" => log' = CapturedTeardown(cycle)

C21_UnchangedKeyNoOp == [][C21_Step]_vars

\* a cycle set up with two refs and two event types was torn down by
\* explicit removal after renders that left one ref and one event type
C21_Witness ==
    /\ phase = "unmounted"
    /\ ncycles = 1
    /\ Len(ToArray(props.ref)) = 1
    /\ Len(ToArray(props.event)) = 1
    /\ props.options.listenerOptions.signal = "absent"
    /\ props.options.callHandlerOnce
    /\ NumOps({"remove"}) = 4
    /\ NumOps({"call"}) = 0


====
